---------------------------- MODULE Spec2Model ----------------------------
(***************************************************************************)
(* Helpdesk ticketing backend (eval-corpus/repos/medium-python): the       *)
(* in-memory store, the per-user rate limiter, the ticket-opening policy,  *)
(* triage, and the open / assign / close service flows.                    *)
(*                                                                         *)
(* The store is one record (users, tickets, tokens, audits, rate_limits,   *)
(* _id_counter).  Every Python function is an operator from its arguments  *)
(* and the store to a result record:                                       *)
(*     store  - the store after the call (mutations made before a raise    *)
(*              are kept, as in the code),                                 *)
(*     raised - Ok, or the message of the exception the call raises,       *)
(*     value  - what the call returns.                                     *)
(* The store record has two more fields, histories that are no fields of   *)
(* the class: issued, the IDs next_id has returned, and started, per user   *)
(* the instant (in milliseconds) of the check_rate_limit call that started  *)
(* the user's window.                                                      *)
(* Python dicts are functions whose DOMAIN is the set of keys; d.get(k)    *)
(* is None exactly when k is not in the DOMAIN.  Time is an integer number *)
(* of milliseconds since the epoch.                                        *)
(***************************************************************************)
EXTENDS Integers, Sequences, FiniteSets, TLC

VARIABLES
    store,      \* the InMemoryStore every call works on
    now,        \* the wall clock, in milliseconds
    last,       \* the last call made: its name, arguments and outcome
    pc,         \* per thread: position inside next_id / check_rate_limit
    reg,        \* per thread: the locals of the call it is running
    done,       \* per thread: the outcomes of the calls it has finished
    heap        \* the window dicts the threads share, by reference

vars == <<store, now, last, pc, reg, done, heap>>

-----------------------------------------------------------------------------
(* config.py *)

MAX_OPEN_TICKETS == 5
RATE_LIMIT_PER_MINUTE == 30
ALLOWED_ROLES == {"agent", "admin", "viewer", "guest"}

(* rate_limit.py: the window length of `elapsed >= 60`, in seconds *)
WINDOW_SECONDS == 60

-----------------------------------------------------------------------------
(* Values *)

Ok == "ok"
None == "None"
NoValue == [kind |-> "none"]

Result(st, raised, value) == [store |-> st, raised |-> raised, value |-> value]

(* d[k] = v of a Python dict *)
Put(d, k, v) == [x \in (DOMAIN d) \cup {k} |-> IF x = k THEN v ELSE d[x]]

EmptyDict == [x \in {} |-> None]

-----------------------------------------------------------------------------
(* store.py *)

InMemoryStore(users) ==
    [users       |-> users,
     tickets     |-> EmptyDict,
     tokens      |-> EmptyDict,
     audits      |-> <<>>,
     rate_limits |-> EmptyDict,
     id_counter  |-> 0,
     issued      |-> <<>>,
     started     |-> EmptyDict]

DigitChar == <<"0", "1", "2", "3", "4", "5", "6", "7", "8", "9">>

RECURSIVE Decimal(_)
Decimal(n) ==
    IF n < 10 THEN DigitChar[n + 1]
    ELSE Decimal(n \div 10) \o DigitChar[(n % 10) + 1]

RECURSIVE ZeroPad(_, _)
ZeroPad(s, width) == IF Len(s) >= width THEN s ELSE ZeroPad("0" \o s, width)

(* The format with the number cut to its last four digits. *)
FormatId_four_digits(prefix, n) ==
    prefix \o "-" \o ZeroPad(Decimal(n % 10000), 4)

(* f"{prefix}-{n:04d}" *)
FormatId(prefix, n) == prefix \o "-" \o ZeroPad(Decimal(n), 4)

(* next_id: the counter is incremented, then read again for the result.
   issued is no field of the class: it records, in call order, what next_id
   has returned (prefix, the counter value formatted, the ID). *)
next_id(st, prefix) ==
    LET st1 == [st EXCEPT !.id_counter = @ + 1]
        id  == FormatId(prefix, st1.id_counter)
    IN  Result([st1 EXCEPT !.issued =
                   Append(@, [prefix |-> prefix, n |-> st1.id_counter, id |-> id])],
               Ok, id)

(* add_audit with the event put at the head of the log. *)
add_audit_prepend(st, action, actor_id, meta, current) ==
    LET nid   == next_id(st, "audit")
        audit == [id         |-> nid.value,
                  action     |-> action,
                  actor_id   |-> actor_id,
                  created_at |-> current,
                  meta       |-> meta]
    IN  Result([nid.store EXCEPT !.audits = <<audit>> \o @], Ok, audit)

add_audit(st, action, actor_id, meta, current) ==
    LET nid   == next_id(st, "audit")
        audit == [id         |-> nid.value,
                  action     |-> action,
                  actor_id   |-> actor_id,
                  created_at |-> current,
                  meta       |-> meta]
    IN  Result([nid.store EXCEPT !.audits = Append(@, audit)], Ok, audit)

(* get_open_tickets_for_user returning the closed tickets too. *)
get_open_tickets_for_user_counts_closed(st, user_id) ==
    {st.tickets[k] : k \in {i \in DOMAIN st.tickets :
                              st.tickets[i].requester_id = user_id}}

get_open_tickets_for_user(st, user_id) ==
    {st.tickets[k] : k \in {i \in DOMAIN st.tickets :
                              /\ st.tickets[i].requester_id = user_id
                              /\ st.tickets[i].status = "open"}}

-----------------------------------------------------------------------------
(* rate_limit.py *)

(* int(current.timestamp()): whole seconds, the fraction dropped *)
Timestamp(current) == current \div 1000

(* (current - fromtimestamp(window_start)).total_seconds() >= 60 *)
WindowElapsed(current, window_start) ==
    current - window_start * 1000 >= WINDOW_SECONDS * 1000

(* check_rate_limit raising from the 30th request of a window on. *)
check_rate_limit_off_by_one(user_id, st, current) ==
    IF user_id \notin DOMAIN st.rate_limits
    THEN Result([st EXCEPT !.rate_limits =
                    Put(@, user_id, [window_start |-> Timestamp(current),
                                     count        |-> 1]),
                           !.started = Put(@, user_id, current)],
                Ok, NoValue)
    ELSE LET state == st.rate_limits[user_id]
         IN  IF WindowElapsed(current, state.window_start)
             THEN Result([st EXCEPT !.rate_limits[user_id] =
                             [window_start |-> Timestamp(current),
                              count        |-> 1],
                                    !.started = Put(@, user_id, current)],
                         Ok, NoValue)
             ELSE LET st1 == [st EXCEPT !.rate_limits[user_id].count = @ + 1]
                  IN  IF st1.rate_limits[user_id].count >= RATE_LIMIT_PER_MINUTE
                      THEN Result(st1, "rate limit exceeded", NoValue)
                      ELSE Result(st1, Ok, NoValue)

(* check_rate_limit comparing the count before it is incremented. *)
check_rate_limit_compare_first(user_id, st, current) ==
    IF user_id \notin DOMAIN st.rate_limits
    THEN Result([st EXCEPT !.rate_limits =
                    Put(@, user_id, [window_start |-> Timestamp(current),
                                     count        |-> 1]),
                           !.started = Put(@, user_id, current)],
                Ok, NoValue)
    ELSE LET state == st.rate_limits[user_id]
         IN  IF WindowElapsed(current, state.window_start)
             THEN Result([st EXCEPT !.rate_limits[user_id] =
                             [window_start |-> Timestamp(current),
                              count        |-> 1],
                                    !.started = Put(@, user_id, current)],
                         Ok, NoValue)
             ELSE LET st1 == [st EXCEPT !.rate_limits[user_id].count = @ + 1]
                  IN  IF state.count > RATE_LIMIT_PER_MINUTE
                      THEN Result(st1, "rate limit exceeded", NoValue)
                      ELSE Result(st1, Ok, NoValue)

(* check_rate_limit keeping a window whose count is above the limit. *)
check_rate_limit_locks_out(user_id, st, current) ==
    IF user_id \notin DOMAIN st.rate_limits
    THEN Result([st EXCEPT !.rate_limits =
                    Put(@, user_id, [window_start |-> Timestamp(current),
                                     count        |-> 1]),
                           !.started = Put(@, user_id, current)],
                Ok, NoValue)
    ELSE LET state == st.rate_limits[user_id]
         IN  IF /\ WindowElapsed(current, state.window_start)
                /\ state.count <= RATE_LIMIT_PER_MINUTE
             THEN Result([st EXCEPT !.rate_limits[user_id] =
                             [window_start |-> Timestamp(current),
                              count        |-> 1],
                                    !.started = Put(@, user_id, current)],
                         Ok, NoValue)
             ELSE LET st1 == [st EXCEPT !.rate_limits[user_id].count = @ + 1]
                  IN  IF st1.rate_limits[user_id].count > RATE_LIMIT_PER_MINUTE
                      THEN Result(st1, "rate limit exceeded", NoValue)
                      ELSE Result(st1, Ok, NoValue)

check_rate_limit(user_id, st, current) ==
    IF user_id \notin DOMAIN st.rate_limits
    THEN Result([st EXCEPT !.rate_limits =
                    Put(@, user_id, [window_start |-> Timestamp(current),
                                     count        |-> 1]),
                           !.started = Put(@, user_id, current)],
                Ok, NoValue)
    ELSE LET state == st.rate_limits[user_id]
         IN  IF WindowElapsed(current, state.window_start)
             THEN Result([st EXCEPT !.rate_limits[user_id] =
                             [window_start |-> Timestamp(current),
                              count        |-> 1],
                                    !.started = Put(@, user_id, current)],
                         Ok, NoValue)
             ELSE LET st1 == [st EXCEPT !.rate_limits[user_id].count = @ + 1]
                  IN  IF st1.rate_limits[user_id].count > RATE_LIMIT_PER_MINUTE
                      THEN Result(st1, "rate limit exceeded", NoValue)
                      ELSE Result(st1, Ok, NoValue)

RECURSIVE Burst(_, _, _, _)
(* The store after n check_rate_limit calls for user_id in a row, all at
   instant t, the row ending early at a call that raises. *)
Burst(st, user_id, t, n) ==
    IF n = 0 THEN st
    ELSE LET res == check_rate_limit(user_id, st, t)
         IN  IF res.raised # Ok THEN res.store
             ELSE Burst(res.store, user_id, t, n - 1)

-----------------------------------------------------------------------------
(* policy.py *)

(* can_open_ticket without the check of the active flag. *)
can_open_ticket_skips_active(user, open_tickets) ==
    IF user.role = "guest"
    THEN [allowed |-> FALSE, reason |-> "guest role cannot open tickets"]
    ELSE IF open_tickets >= MAX_OPEN_TICKETS
    THEN [allowed |-> FALSE, reason |-> "too many open tickets"]
    ELSE [allowed |-> TRUE, reason |-> "allowed"]

(* can_open_ticket testing the role before the active flag. *)
can_open_ticket_role_first(user, open_tickets) ==
    IF user.role = "guest"
    THEN [allowed |-> FALSE, reason |-> "guest role cannot open tickets"]
    ELSE IF ~user.active
    THEN [allowed |-> FALSE, reason |-> "inactive user"]
    ELSE IF open_tickets >= MAX_OPEN_TICKETS
    THEN [allowed |-> FALSE, reason |-> "too many open tickets"]
    ELSE [allowed |-> TRUE, reason |-> "allowed"]

(* can_open_ticket denying only above MAX_OPEN_TICKETS. *)
can_open_ticket_above_max(user, open_tickets) ==
    IF ~user.active
    THEN [allowed |-> FALSE, reason |-> "inactive user"]
    ELSE IF user.role = "guest"
    THEN [allowed |-> FALSE, reason |-> "guest role cannot open tickets"]
    ELSE IF open_tickets > MAX_OPEN_TICKETS
    THEN [allowed |-> FALSE, reason |-> "too many open tickets"]
    ELSE [allowed |-> TRUE, reason |-> "allowed"]

can_open_ticket(user, open_tickets) ==
    IF ~user.active
    THEN [allowed |-> FALSE, reason |-> "inactive user"]
    ELSE IF user.role = "guest"
    THEN [allowed |-> FALSE, reason |-> "guest role cannot open tickets"]
    ELSE IF open_tickets >= MAX_OPEN_TICKETS
    THEN [allowed |-> FALSE, reason |-> "too many open tickets"]
    ELSE [allowed |-> TRUE, reason |-> "allowed"]

-----------------------------------------------------------------------------
(* triage.py *)

UpperCase == "ABCDEFGHIJKLMNOPQRSTUVWXYZ"
LowerCase == "abcdefghijklmnopqrstuvwxyz"

LowerChar(c) ==
    IF \E i \in 1..Len(UpperCase) : SubSeq(UpperCase, i, i) = c
    THEN LET i == CHOOSE j \in 1..Len(UpperCase) : SubSeq(UpperCase, j, j) = c
         IN  SubSeq(LowerCase, i, i)
    ELSE c

RECURSIVE Lower(_)
Lower(s) == IF Len(s) = 0 THEN s ELSE LowerChar(Head(s)) \o Lower(Tail(s))

(* word in haystack *)
Contains(haystack, word) ==
    \E i \in 1..(Len(haystack) - Len(word) + 1) :
        SubSeq(haystack, i, i + Len(word) - 1) = word

(* KEYWORDS, in the dict's insertion order *)
KEYWORDS ==
    << <<"critical", <<"outage", "data loss", "breach">> >>,
       <<"high",     <<"failure", "crash", "error">> >>,
       <<"medium",   <<"latency", "slow", "timeout">> >> >>

RECURSIVE FirstGroup(_, _)
FirstGroup(haystack, i) ==
    IF i > Len(KEYWORDS) THEN "low"
    ELSE IF \E w \in 1..Len(KEYWORDS[i][2]) : Contains(haystack, KEYWORDS[i][2][w])
         THEN KEYWORDS[i][1]
         ELSE FirstGroup(haystack, i + 1)

classify_severity(title, description) ==
    FirstGroup(Lower(title \o " " \o description), 1)

(* min with the last of the items of least load. *)
MinByLoad_last_of_ties(agents) ==
    LET i == CHOOSE j \in 1..Len(agents) :
                 /\ \A k \in 1..Len(agents) : agents[j][2] <= agents[k][2]
                 /\ \A k \in (j + 1)..Len(agents) : agents[k][2] > agents[j][2]
    IN  agents[i]

(* The loop of min: the items from the i-th on are compared with the best
   so far, which gives way only to an item of strictly smaller key. *)
RECURSIVE MinFrom(_, _, _)
MinFrom(agents, i, best) ==
    IF i > Len(agents) THEN best
    ELSE MinFrom(agents, i + 1,
                 IF agents[i][2] < best[2] THEN agents[i] ELSE best)

(* min(agents, key=lambda item: item[1]) of a non-empty list *)
MinByLoad(agents) == MinFrom(agents, 2, agents[1])

(* assign_ticket that also puts the ticket back to "open". *)
assign_ticket_reopens(ticket, agents) ==
    IF Len(agents) = 0
    THEN [ticket |-> ticket, raised |-> "min() arg is an empty sequence",
          value |-> None]
    ELSE LET best == MinByLoad(agents)
         IN  [ticket |-> [ticket EXCEPT !.assigned_to = best[1],
                                        !.status = "open"],
              raised |-> Ok, value |-> best[1]]

(* assign_ticket clearing assigned_to before it takes the minimum. *)
assign_ticket_clears_first(ticket, agents) ==
    IF Len(agents) = 0
    THEN [ticket |-> [ticket EXCEPT !.assigned_to = None],
          raised |-> "min() arg is an empty sequence", value |-> None]
    ELSE LET best == MinByLoad(agents)
         IN  [ticket |-> [ticket EXCEPT !.assigned_to = best[1]],
              raised |-> Ok, value |-> best[1]]

(* assign_ticket returning the id of the last candidate. *)
assign_ticket_returns_last(ticket, agents) ==
    IF Len(agents) = 0
    THEN [ticket |-> ticket, raised |-> "min() arg is an empty sequence",
          value |-> None]
    ELSE LET best == MinByLoad(agents)
         IN  [ticket |-> [ticket EXCEPT !.assigned_to = best[1]],
              raised |-> Ok, value |-> agents[Len(agents)][1]]

(* assign_ticket: min raises ValueError on an empty iterable, before the
   ticket is touched. *)
assign_ticket(ticket, agents) ==
    IF Len(agents) = 0
    THEN [ticket |-> ticket, raised |-> "min() arg is an empty sequence",
          value |-> None]
    ELSE LET best == MinByLoad(agents)
         IN  [ticket |-> [ticket EXCEPT !.assigned_to = best[1]],
              raised |-> Ok, value |-> best[1]]

-----------------------------------------------------------------------------
(* notifications.py *)

send_assignment_notice(ticket, agent_id) ==
    [kind      |-> "assignment",
     ticket_id |-> ticket.id,
     agent_id  |-> agent_id,
     severity  |-> ticket.severity]

-----------------------------------------------------------------------------
(* service.py *)

(* open_ticket resolving the requester before it consults the rate
   limiter. *)
open_ticket_resolves_first(requester_id, title, description, tags, st, current) ==
    IF requester_id \notin DOMAIN st.users
    THEN Result(st, "requester not found", NoValue)
    ELSE
    LET rl   == check_rate_limit(requester_id, st, current)
        data == rl.store
    IN  IF rl.raised # Ok THEN Result(data, rl.raised, NoValue)
        ELSE
        LET user         == data.users[requester_id]
            open_tickets == get_open_tickets_for_user(data, requester_id)
            policy       == can_open_ticket(user, Cardinality(open_tickets))
        IN  IF ~policy.allowed THEN Result(data, policy.reason, NoValue)
            ELSE
            LET severity == classify_severity(title, description)
                nid      == next_id(data, "ticket")
                ticket   == [id           |-> nid.value,
                             title        |-> title,
                             description  |-> description,
                             severity     |-> severity,
                             status       |-> "open",
                             requester_id |-> requester_id,
                             created_at   |-> current,
                             assigned_to  |-> None,
                             tags         |-> tags]
                data1    == [nid.store EXCEPT !.tickets = Put(@, ticket.id, ticket)]
                audit    == add_audit(data1, "ticket.open", requester_id,
                                      [ticket_id |-> ticket.id,
                                       severity  |-> severity], current)
            IN  Result(audit.store, Ok, ticket)

open_ticket(requester_id, title, description, tags, st, current) ==
    LET rl   == check_rate_limit(requester_id, st, current)
        data == rl.store
    IN  IF rl.raised # Ok THEN Result(data, rl.raised, NoValue)
        ELSE IF requester_id \notin DOMAIN data.users
        THEN Result(data, "requester not found", NoValue)
        ELSE
        LET user         == data.users[requester_id]
            open_tickets == get_open_tickets_for_user(data, requester_id)
            policy       == can_open_ticket(user, Cardinality(open_tickets))
        IN  IF ~policy.allowed THEN Result(data, policy.reason, NoValue)
            ELSE
            LET severity == classify_severity(title, description)
                nid      == next_id(data, "ticket")
                ticket   == [id           |-> nid.value,
                             title        |-> title,
                             description  |-> description,
                             severity     |-> severity,
                             status       |-> "open",
                             requester_id |-> requester_id,
                             created_at   |-> current,
                             assigned_to  |-> None,
                             tags         |-> tags]
                data1    == [nid.store EXCEPT !.tickets = Put(@, ticket.id, ticket)]
                audit    == add_audit(data1, "ticket.open", requester_id,
                                      [ticket_id |-> ticket.id,
                                       severity  |-> severity], current)
            IN  Result(audit.store, Ok, ticket)

assign_ticket_flow(ticket_id, agents, st, current) ==
    IF ticket_id \notin DOMAIN st.tickets
    THEN Result(st, "ticket not found", NoValue)
    ELSE
    LET assigned == assign_ticket(st.tickets[ticket_id], agents)
        data1    == [st EXCEPT !.tickets[ticket_id] = assigned.ticket]
    IN  IF assigned.raised # Ok THEN Result(data1, assigned.raised, NoValue)
        ELSE
        LET audit == add_audit(data1, "ticket.assign", assigned.value,
                               [ticket_id |-> assigned.ticket.id], current)
        IN  Result(audit.store, Ok,
                   send_assignment_notice(assigned.ticket, assigned.value))

(* close_ticket clearing the ticket's assigned_to as well. *)
close_ticket_unassigns(ticket_id, actor_id, st, current) ==
    IF ticket_id \notin DOMAIN st.tickets
    THEN Result(st, "ticket not found", NoValue)
    ELSE
    LET data1 == [st EXCEPT !.tickets[ticket_id].status = "closed",
                            !.tickets[ticket_id].assigned_to = None]
        audit == add_audit(data1, "ticket.close", actor_id,
                           [ticket_id |-> data1.tickets[ticket_id].id], current)
    IN  Result(audit.store, Ok, data1.tickets[ticket_id])

(* close_ticket appending no event for a ticket that is closed already. *)
close_ticket_dedups(ticket_id, actor_id, st, current) ==
    IF ticket_id \notin DOMAIN st.tickets
    THEN Result(st, "ticket not found", NoValue)
    ELSE IF st.tickets[ticket_id].status = "closed"
    THEN Result(st, Ok, st.tickets[ticket_id])
    ELSE
    LET data1 == [st EXCEPT !.tickets[ticket_id].status = "closed"]
        audit == add_audit(data1, "ticket.close", actor_id,
                           [ticket_id |-> data1.tickets[ticket_id].id], current)
    IN  Result(audit.store, Ok, data1.tickets[ticket_id])

close_ticket(ticket_id, actor_id, st, current) ==
    IF ticket_id \notin DOMAIN st.tickets
    THEN Result(st, "ticket not found", NoValue)
    ELSE
    LET data1 == [st EXCEPT !.tickets[ticket_id].status = "closed"]
        audit == add_audit(data1, "ticket.close", actor_id,
                           [ticket_id |-> data1.tickets[ticket_id].id], current)
    IN  Result(audit.store, Ok, data1.tickets[ticket_id])

-----------------------------------------------------------------------------
(* The callers.  Each action is one call on the shared store, made at the
   instant the clock shows; last records it. *)

UserIds == {"u1", "u2"}

(* "ghost" is the id of no user. *)
RequesterIds == UserIds \cup {"ghost"}

User(id, role, active) ==
    [id |-> id, email |-> id \o "@example.com", role |-> role, active |-> active]

(* What a requester submits: title, description, tags. *)
Requests ==
    {[title |-> "Data loss incident", description |-> "", tags |-> <<"db">>],
     [title |-> "slow response", description |-> "Timeout at login", tags |-> <<>>]}

(* Candidate lists handed to assign_ticket_flow: (agent_id, load) pairs. *)
AgentLists ==
    {<< >>,
     << <<"a1", 3>>, <<"a2", 1>>, <<"a3", 5>> >>,
     << <<"a3", 2>>, <<"a1", 2>> >>}

ActorIds == {"a1"}

(* Ticket ids a caller may name: those in the store, and one that is not. *)
TicketIdArgs == (DOMAIN store.tickets) \cup {"ticket-0000"}

Call(op, args, res, seq) ==
    [op |-> op, args |-> args, raised |-> res.raised, value |-> res.value,
     seq |-> seq]

NoCall ==
    [op |-> "none", args |-> <<>>, raised |-> Ok, value |-> NoValue, seq |-> 0]

OpenTicket(r, req) ==
    /\ LET res == open_ticket(r, req.title, req.description, req.tags, store, now)
       IN  /\ store' = res.store
           /\ last' = Call("open_ticket", <<r, req>>, res, last.seq + 1)
    /\ UNCHANGED <<now, pc, reg, done, heap>>

AssignTicketFlow(t, agents) ==
    /\ LET res == assign_ticket_flow(t, agents, store, now)
       IN  /\ store' = res.store
           /\ last' = Call("assign_ticket_flow", <<t, agents>>, res, last.seq + 1)
    /\ UNCHANGED <<now, pc, reg, done, heap>>

CloseTicket(t, actor) ==
    /\ LET res == close_ticket(t, actor, store, now)
       IN  /\ store' = res.store
           /\ last' = Call("close_ticket", <<t, actor>>, res, last.seq + 1)
    /\ UNCHANGED <<now, pc, reg, done, heap>>

(* store.next_id(prefix), called directly. *)
NextId(prefix) ==
    /\ LET res == next_id(store, prefix)
       IN  /\ store' = res.store
           /\ last' = Call("next_id", <<prefix>>,
                           Result(res.store, Ok, [kind |-> "id", id |-> res.value]),
                           last.seq + 1)
    /\ UNCHANGED <<now, pc, reg, done, heap>>

(* check_rate_limit(user_id, store, now), called directly. *)
CheckRateLimit(u) ==
    /\ LET res == check_rate_limit(u, store, now)
       IN  /\ store' = res.store
           /\ last' = Call("check_rate_limit", <<u, now>>, res, 0)
    /\ UNCHANGED <<now, pc, reg, done, heap>>

(* check_rate_limit(user_id, store, now), called directly, as one of the
   numbered calls of a run. *)
CheckRateLimitInRun(u) ==
    /\ LET res == check_rate_limit(u, store, now)
       IN  /\ store' = res.store
           /\ last' = Call("check_rate_limit", <<u, now>>, res, last.seq + 1)
    /\ UNCHANGED <<now, pc, reg, done, heap>>

(* can_open_ticket(user, open_tickets), called directly. *)
CanOpenTicket(user, n) ==
    /\ last' = Call("can_open_ticket", <<user, n>>,
                    Result(store, Ok, can_open_ticket(user, n)), last.seq + 1)
    /\ UNCHANGED <<store, now, pc, reg, done, heap>>

(* Users are created and changed outside the service. *)
SetUser(u, role, active) ==
    /\ store' = [store EXCEPT !.users[u] = User(u, role, active)]
    /\ UNCHANGED <<now, last, pc, reg, done, heap>>

(* The wall clock moves on to a later one of the instants followed. *)
Tick(instants) ==
    /\ \E t \in instants : t > now /\ now' = t
    /\ UNCHANGED <<store, last, pc, reg, done, heap>>

-----------------------------------------------------------------------------
(* Spec: the ticket lifecycle.  Sequential open / assign / close calls on a
   store seeded with an agent (u1) and a guest (u2). *)

(* Runs of at most MaxCalls service calls are followed. *)
MaxCalls == 4

Instants == {0, 60000}

SeedUsers ==
    [u \in UserIds |-> IF u = "u1" THEN User(u, "agent", TRUE)
                                   ELSE User(u, "guest", TRUE)]

(* Two active agents. *)
SeedUsers2 == [u \in UserIds |-> User(u, "agent", TRUE)]

Init ==
    /\ store = InMemoryStore(SeedUsers)
    /\ now = 0
    /\ last = NoCall
    /\ pc = <<>>
    /\ reg = <<>>
    /\ done = <<>>
    /\ heap = <<>>

Next ==
    \/ /\ last.seq < MaxCalls
       /\ \E r \in RequesterIds, req \in Requests : OpenTicket(r, req)
    \/ /\ last.seq < MaxCalls
       /\ \E t \in TicketIdArgs, agents \in AgentLists : AssignTicketFlow(t, agents)
    \/ /\ last.seq < MaxCalls
       /\ \E t \in TicketIdArgs, actor \in ActorIds : CloseTicket(t, actor)
    \/ Tick(Instants)

Spec == Init /\ [][Next]_vars


-----------------------------------------------------------------------------
(* SpecIds: ID generation.  next_id is called directly, with any of
   Prefixes, and through open_ticket and add_audit.  The runs start on a
   fresh store, or on one whose counter stands three short of 10000, where
   the IDs outgrow the four digits of the format; store.issued then holds
   the IDs returned since. *)

Prefixes == {"ticket", "audit", "ticket-1"}

InitIds ==
    /\ \E c \in {0, 9997} :
          store = [InMemoryStore(SeedUsers) EXCEPT !.id_counter = c]
    /\ now = 0
    /\ last = NoCall
    /\ pc = <<>>
    /\ reg = <<>>
    /\ done = <<>>
    /\ heap = <<>>

NextIds ==
    \/ /\ last.seq < MaxCalls
       /\ \E prefix \in Prefixes : NextId(prefix)
    \/ /\ last.seq < MaxCalls
       /\ \E req \in Requests : OpenTicket("u1", req)
    \/ /\ last.seq < MaxCalls
       /\ \E t \in DOMAIN store.tickets, agents \in AgentLists :
             AssignTicketFlow(t, agents)
    \/ /\ last.seq < MaxCalls
       /\ \E t \in DOMAIN store.tickets, actor \in ActorIds : CloseTicket(t, actor)

SpecIds == InitIds /\ [][NextIds]_vars

-----------------------------------------------------------------------------
(* SpecRate: the rate limiter.  Sequential check_rate_limit calls for one
   user, at instants on and off the whole second, on both sides of the end
   of a window.  Requests past the limit are followed until the count stands
   MaxOver above it. *)

MaxOver == 2

RateInstants ==
    {0, 400, 59600, 59999, 60000, 60400, 119999, 120000, 120400}

(* The call does not take the count past what is followed. *)
CountFollowed(u) ==
    check_rate_limit(u, store, now).store.rate_limits[u].count
        <= RATE_LIMIT_PER_MINUTE + MaxOver

InitRate ==
    /\ store = InMemoryStore(SeedUsers)
    /\ now \in {0, 400}
    /\ last = NoCall
    /\ pc = <<>>
    /\ reg = <<>>
    /\ done = <<>>
    /\ heap = <<>>

NextRate ==
    \/ CountFollowed("u1") /\ CheckRateLimit("u1")
    \/ Tick(RateInstants)

SpecRate == InitRate /\ [][NextRate]_vars

-----------------------------------------------------------------------------
(* SpecHeal: the rate limiter after a violation.  The runs start when u1 has
   just been refused in the window that starts at second 0: it made requests
   at one instant until one raised. *)

HealSeeds ==
    {[store |-> Burst(InMemoryStore(SeedUsers), "u1", t,
                      RATE_LIMIT_PER_MINUTE + 1),
      now   |-> t] : t \in {0, 400}}

InitHeal ==
    /\ \E seed \in HealSeeds : store = seed.store /\ now = seed.now
    /\ last = NoCall
    /\ pc = <<>>
    /\ reg = <<>>
    /\ done = <<>>
    /\ heap = <<>>

NextHeal ==
    \/ CountFollowed("u1") /\ CheckRateLimit("u1")
    \/ Tick(RateInstants)

SpecHeal == InitHeal /\ [][NextHeal]_vars

-----------------------------------------------------------------------------
(* SpecPolicy: the policy gate of open_ticket.  u1 takes every role and
   active flag, at the start and between calls; u2 stays an active agent.
   The runs start after u1, as an active agent, has opened 0 to
   MAX_OPEN_TICKETS tickets at instant 0, and either made no other request
   or made requests until its window stood at one below the limit. *)

(* Runs of at most MaxPolicyCalls calls are followed. *)
MaxPolicyCalls == 2

(* Open-ticket counts handed to can_open_ticket directly: 0..MaxOpenCount. *)
MaxOpenCount == 6

PolicyRequest == [title |-> "Login error", description |-> "", tags |-> <<>>]

RECURSIVE Opened(_, _, _)
(* The store after k open_ticket calls of requester_id in a row at instant
   0, the row ending early at a call that raises. *)
Opened(st, requester_id, k) ==
    IF k = 0 THEN st
    ELSE LET res == open_ticket(requester_id, PolicyRequest.title,
                                PolicyRequest.description, PolicyRequest.tags,
                                st, 0)
         IN  IF res.raised # Ok THEN res.store
             ELSE Opened(res.store, requester_id, k - 1)

PolicySeeds ==
    {Opened(InMemoryStore(SeedUsers2), "u1", k) : k \in 0..MAX_OPEN_TICKETS}
    \cup
    {Burst(Opened(InMemoryStore(SeedUsers2), "u1", k), "u1", 0,
           RATE_LIMIT_PER_MINUTE - 1 - k) : k \in 0..MAX_OPEN_TICKETS}

InitPolicy ==
    /\ \E seed \in PolicySeeds, role \in ALLOWED_ROLES, active \in BOOLEAN :
          store = [seed EXCEPT !.users["u1"] = User("u1", role, active)]
    /\ now = 0
    /\ last = NoCall
    /\ pc = <<>>
    /\ reg = <<>>
    /\ done = <<>>
    /\ heap = <<>>

NextPolicy ==
    \/ /\ last.seq < MaxPolicyCalls
       /\ \E r \in RequesterIds : OpenTicket(r, PolicyRequest)
    \/ /\ last.seq < MaxPolicyCalls
       /\ \E t \in DOMAIN store.tickets, actor \in ActorIds : CloseTicket(t, actor)
    \/ /\ last.seq < MaxPolicyCalls
       /\ \E role \in ALLOWED_ROLES, active \in BOOLEAN, n \in 0..MaxOpenCount :
             CanOpenTicket(User("u1", role, active), n)
    \/ \E role \in ALLOWED_ROLES, active \in BOOLEAN : SetUser("u1", role, active)

SpecPolicy == InitPolicy /\ [][NextPolicy]_vars

-----------------------------------------------------------------------------
(* SpecQuota: the open-ticket quota.  u1 has opened MAX_OPEN_TICKETS - 2 to
   MAX_OPEN_TICKETS tickets before the run starts; the run opens, assigns and
   closes tickets, for u1 and for u2, and u1's role and active flag change
   between calls. *)

(* Runs of at most MaxQuotaCalls calls are followed. *)
MaxQuotaCalls == 3

QuotaAgents == << <<"a1", 0>> >>

QuotaSeeds ==
    {Opened(InMemoryStore(SeedUsers2), "u1", k) :
        k \in (MAX_OPEN_TICKETS - 2)..MAX_OPEN_TICKETS}

InitQuota ==
    /\ store \in QuotaSeeds
    /\ now = 0
    /\ last = NoCall
    /\ pc = <<>>
    /\ reg = <<>>
    /\ done = <<>>
    /\ heap = <<>>

NextQuota ==
    \/ /\ last.seq < MaxQuotaCalls
       /\ \E r \in UserIds : OpenTicket(r, PolicyRequest)
    \/ /\ last.seq < MaxQuotaCalls
       /\ \E t \in DOMAIN store.tickets : AssignTicketFlow(t, QuotaAgents)
    \/ /\ last.seq < MaxQuotaCalls
       /\ \E t \in DOMAIN store.tickets, actor \in ActorIds : CloseTicket(t, actor)
    \/ \E role \in {"agent", "guest"}, active \in BOOLEAN :
          SetUser("u1", role, active)

SpecQuota == InitQuota /\ [][NextQuota]_vars

-----------------------------------------------------------------------------
(* SpecAssign: assignment.  u1 has opened two tickets, of different
   severity, and the first may have been closed; assign_ticket_flow is
   handed every list of one to MaxCandidates (agent_id, load) pairs, with
   repeated agents and equal loads, and the list
   [("a1", 3), ("a2", 1), ("a3", 5)]. *)

(* Runs of at most MaxAssignCalls calls are followed. *)
MaxAssignCalls == 1

MaxCandidates == 3

AgentIds == {"a1", "a2"}

Loads == {1, 2}

ExampleAgents == << <<"a1", 3>>, <<"a2", 1>>, <<"a3", 5>> >>

CandidateLists ==
    UNION {[1..k -> AgentIds \X Loads] : k \in 1..MaxCandidates}
       \cup {ExampleAgents}

AssignSeeds ==
    LET req1 == [title |-> "Data loss incident", description |-> "",
                 tags |-> <<"db">>]
        req2 == [title |-> "slow response", description |-> "Timeout at login",
                 tags |-> << >>]
        st1  == open_ticket("u1", req1.title, req1.description, req1.tags,
                            InMemoryStore(SeedUsers), 0).store
        st2  == open_ticket("u1", req2.title, req2.description, req2.tags,
                            st1, 0).store
    IN  {st2, close_ticket(FormatId("ticket", 1), "a1", st2, 0).store}

InitAssign ==
    /\ store \in AssignSeeds
    /\ now = 0
    /\ last = NoCall
    /\ pc = <<>>
    /\ reg = <<>>
    /\ done = <<>>
    /\ heap = <<>>

NextAssign ==
    /\ last.seq < MaxAssignCalls
    /\ \E t \in DOMAIN store.tickets, agents \in CandidateLists :
          AssignTicketFlow(t, agents)

SpecAssign == InitAssign /\ [][NextAssign]_vars

-----------------------------------------------------------------------------
(* SpecFailures: the calls that fail.  u1 is an active agent with one
   ticket, u2 an active guest, "ghost" no user.  The runs start with no
   window but u1's, or with the windows of u1, u2 and "ghost" one request
   short of the limit; they name tickets that exist and one that does not,
   and hand assign_ticket_flow an empty and a non-empty candidate list. *)

(* Runs of at most MaxFailureCalls calls are followed. *)
MaxFailureCalls == 3

FailureAgentLists == {<< >>, QuotaAgents}

FailureSeeds ==
    LET st1 == Opened(InMemoryStore(SeedUsers), "u1", 1)
        st2 == Burst(st1, "u1", 0, RATE_LIMIT_PER_MINUTE - 2)
        st3 == Burst(st2, "u2", 0, RATE_LIMIT_PER_MINUTE - 1)
        st4 == Burst(st3, "ghost", 0, RATE_LIMIT_PER_MINUTE - 1)
    IN  {st1, st4}

InitFailures ==
    /\ store \in FailureSeeds
    /\ now = 0
    /\ last = NoCall
    /\ pc = <<>>
    /\ reg = <<>>
    /\ done = <<>>
    /\ heap = <<>>

NextFailures ==
    \/ /\ last.seq < MaxFailureCalls
       /\ \E r \in RequesterIds : OpenTicket(r, PolicyRequest)
    \/ /\ last.seq < MaxFailureCalls
       /\ \E t \in TicketIdArgs, agents \in FailureAgentLists :
             AssignTicketFlow(t, agents)
    \/ /\ last.seq < MaxFailureCalls
       /\ \E t \in TicketIdArgs, actor \in ActorIds : CloseTicket(t, actor)
    \/ Tick(Instants)

SpecFailures == InitFailures /\ [][NextFailures]_vars

-----------------------------------------------------------------------------
(* SpecFrame: what each operation leaves alone.  u1 has opened two tickets
   and u2 has made one request, so two windows and two tickets exist when
   the run starts; the run mixes the three flows with direct
   check_rate_limit calls for users and for "ghost", before and after the
   windows run out. *)

(* Runs of at most MaxFrameCalls calls are followed. *)
MaxFrameCalls == 3

FrameSeed ==
    Burst(Opened(InMemoryStore(SeedUsers2), "u1", 2), "u2", 0, 1)

InitFrame ==
    /\ store = FrameSeed
    /\ now = 0
    /\ last = NoCall
    /\ pc = <<>>
    /\ reg = <<>>
    /\ done = <<>>
    /\ heap = <<>>

NextFrame ==
    \/ /\ last.seq < MaxFrameCalls
       /\ \E r \in UserIds : OpenTicket(r, PolicyRequest)
    \/ /\ last.seq < MaxFrameCalls
       /\ \E t \in TicketIdArgs, agents \in FailureAgentLists :
             AssignTicketFlow(t, agents)
    \/ /\ last.seq < MaxFrameCalls
       /\ \E t \in TicketIdArgs, actor \in ActorIds : CloseTicket(t, actor)
    \/ /\ last.seq < MaxFrameCalls
       /\ \E u \in RequesterIds : CheckRateLimitInRun(u)
    \/ Tick(Instants)

SpecFrame == InitFrame /\ [][NextFrame]_vars

-----------------------------------------------------------------------------
(* Threads.  Each thread makes calls on the shared store; a step of a thread
   is one read or one write of shared memory, and the steps of different
   threads interleave freely (the code takes no lock). *)

NThreads == 2

Threads == 1..NThreads

(* Each thread makes at most MaxThreadCalls calls. *)
MaxThreadCalls == 2

Idle == [t \in Threads |-> "idle"]

-----------------------------------------------------------------------------
(* SpecIdThreads: next_id called from several threads.
       self._id_counter += 1          load, add, store
       return f"{prefix}-{self._id_counter:04d}"    load again, format
   reg[t].value is the thread's operand stack; done[t] the IDs returned. *)

IdCall(t, prefix) ==
    /\ pc[t] = "idle"
    /\ Len(done[t]) < MaxThreadCalls
    /\ pc' = [pc EXCEPT ![t] = "load"]
    /\ reg' = [reg EXCEPT ![t] = [prefix |-> prefix, value |-> 0]]
    /\ UNCHANGED <<store, now, last, done, heap>>

IdLoad(t) ==
    /\ pc[t] = "load"
    /\ reg' = [reg EXCEPT ![t].value = store.id_counter]
    /\ pc' = [pc EXCEPT ![t] = "add"]
    /\ UNCHANGED <<store, now, last, done, heap>>

IdAdd(t) ==
    /\ pc[t] = "add"
    /\ reg' = [reg EXCEPT ![t].value = @ + 1]
    /\ pc' = [pc EXCEPT ![t] = "store"]
    /\ UNCHANGED <<store, now, last, done, heap>>

IdStore(t) ==
    /\ pc[t] = "store"
    /\ store' = [store EXCEPT !.id_counter = reg[t].value]
    /\ pc' = [pc EXCEPT ![t] = "format"]
    /\ UNCHANGED <<now, last, reg, done, heap>>

IdReturn(t) ==
    /\ pc[t] = "format"
    /\ done' = [done EXCEPT ![t] =
                   Append(@, FormatId(reg[t].prefix, store.id_counter))]
    /\ pc' = [pc EXCEPT ![t] = "idle"]
    /\ UNCHANGED <<store, now, last, reg, heap>>

InitIdThreads ==
    /\ store = InMemoryStore(SeedUsers)
    /\ now = 0
    /\ last = NoCall
    /\ pc = Idle
    /\ reg = [t \in Threads |-> [prefix |-> "", value |-> 0]]
    /\ done = [t \in Threads |-> <<>>]
    /\ heap = <<>>

NextIdThreads ==
    \E t \in Threads :
       \/ \E prefix \in {"ticket", "audit"} : IdCall(t, prefix)
       \/ IdLoad(t)
       \/ IdAdd(t)
       \/ IdStore(t)
       \/ IdReturn(t)

SpecIdThreads == InitIdThreads /\ [][NextIdThreads]_vars

-----------------------------------------------------------------------------
(* SpecRateThreads: check_rate_limit called for one user from several
   threads.  A window is a dict the threads hold by reference: heap is the
   dicts created so far, store.rate_limits[u] the index in heap of the
   user's dict, reg[t].state the index the thread got (0 for None).
   last.seq is the number of calls made before the threads start, all at
   instant 0 and all successful; done[t] holds the outcome of each call of
   thread t and the instant it was made at. *)

RateUser == "u1"

RlCall(t) ==
    /\ pc[t] = "idle"
    /\ Len(done[t]) < MaxThreadCalls
    /\ pc' = [pc EXCEPT ![t] = "get"]
    /\ reg' = [reg EXCEPT ![t] = [current |-> now, state |-> 0, value |-> 0]]
    /\ UNCHANGED <<store, now, last, done, heap>>

(* state = store.rate_limits.get(user_id) *)
RlGet(t) ==
    /\ pc[t] = "get"
    /\ reg' = [reg EXCEPT ![t].state =
                  IF RateUser \in DOMAIN store.rate_limits
                  THEN store.rate_limits[RateUser] ELSE 0]
    /\ pc' = [pc EXCEPT ![t] = "test"]
    /\ UNCHANGED <<store, now, last, done, heap>>

(* if state is None: ...; elapsed = current - state["window_start"];
   if elapsed >= 60: ... *)
RlTest(t) ==
    /\ pc[t] = "test"
    /\ pc' = [pc EXCEPT ![t] =
                 IF reg[t].state = 0 THEN "create"
                 ELSE IF WindowElapsed(reg[t].current,
                                       heap[reg[t].state].window_start)
                      THEN "reset_start"
                      ELSE "load_count"]
    /\ UNCHANGED <<store, now, last, reg, done, heap>>

RlReturn(t, raised) ==
    /\ done' = [done EXCEPT ![t] =
                   Append(@, [raised |-> raised, at |-> reg[t].current])]
    /\ pc' = [pc EXCEPT ![t] = "idle"]

(* store.rate_limits[user_id] = {...}; return *)
RlCreate(t) ==
    /\ pc[t] = "create"
    /\ heap' = Append(heap, [window_start |-> Timestamp(reg[t].current),
                             count        |-> 1])
    /\ store' = [store EXCEPT !.rate_limits = Put(@, RateUser, Len(heap) + 1),
                              !.started = Put(@, RateUser, reg[t].current)]
    /\ RlReturn(t, Ok)
    /\ UNCHANGED <<now, last, reg>>

(* state["window_start"] = int(current.timestamp()) *)
RlResetStart(t) ==
    /\ pc[t] = "reset_start"
    /\ heap' = [heap EXCEPT ![reg[t].state].window_start =
                   Timestamp(reg[t].current)]
    /\ store' = [store EXCEPT !.started = Put(@, RateUser, reg[t].current)]
    /\ pc' = [pc EXCEPT ![t] = "reset_count"]
    /\ UNCHANGED <<now, last, reg, done>>

(* state["count"] = 1; return *)
RlResetCount(t) ==
    /\ pc[t] = "reset_count"
    /\ heap' = [heap EXCEPT ![reg[t].state].count = 1]
    /\ RlReturn(t, Ok)
    /\ UNCHANGED <<store, now, last, reg>>

(* state["count"] += 1: the read *)
RlLoadCount(t) ==
    /\ pc[t] = "load_count"
    /\ reg' = [reg EXCEPT ![t].value = heap[reg[t].state].count]
    /\ pc' = [pc EXCEPT ![t] = "store_count"]
    /\ UNCHANGED <<store, now, last, done, heap>>

(* state["count"] += 1: the add and the write *)
RlStoreCount(t) ==
    /\ pc[t] = "store_count"
    /\ heap' = [heap EXCEPT ![reg[t].state].count = reg[t].value + 1]
    /\ pc' = [pc EXCEPT ![t] = "compare"]
    /\ UNCHANGED <<store, now, last, reg, done>>

(* if state["count"] > RATE_LIMIT_PER_MINUTE: raise *)
RlCompare(t) ==
    /\ pc[t] = "compare"
    /\ RlReturn(t, IF heap[reg[t].state].count > RATE_LIMIT_PER_MINUTE
                   THEN "rate limit exceeded" ELSE Ok)
    /\ UNCHANGED <<store, now, last, reg, heap>>

(* The store before the threads start: no window yet, or the window of
   instant 0 after 29 calls. *)
InitRateThreads ==
    /\ \E n \in {0, RATE_LIMIT_PER_MINUTE - 1} :
          /\ heap = IF n = 0 THEN <<>>
                    ELSE <<Burst(InMemoryStore(SeedUsers), RateUser, 0, n)
                              .rate_limits[RateUser]>>
          /\ store = [InMemoryStore(SeedUsers) EXCEPT
                         !.rate_limits =
                            IF n = 0 THEN EmptyDict ELSE Put(@, RateUser, 1),
                         !.started =
                            IF n = 0 THEN EmptyDict ELSE Put(@, RateUser, 0)]
          /\ last = [NoCall EXCEPT !.seq = n]
    /\ now = 0
    /\ pc = Idle
    /\ reg = [t \in Threads |-> [current |-> 0, state |-> 0, value |-> 0]]
    /\ done = [t \in Threads |-> <<>>]

NextRateThreads ==
    \/ \E t \in Threads :
          \/ RlCall(t)
          \/ RlGet(t)
          \/ RlTest(t)
          \/ RlCreate(t)
          \/ RlResetStart(t)
          \/ RlResetCount(t)
          \/ RlLoadCount(t)
          \/ RlStoreCount(t)
          \/ RlCompare(t)
    \/ Tick(Instants)

SpecRateThreads == InitRateThreads /\ [][NextRateThreads]_vars

-----------------------------------------------------------------------------
(* Reading a step: the call it makes, and the events of the audit log. *)

(* This step is a call of op (last numbers the calls). *)
Called(op) == last'.seq = last.seq + 1 /\ last'.op = op

Succeeded(op) == Called(op) /\ last'.raised = Ok

AuditAction(op) ==
    CASE op = "open_ticket"        -> "ticket.open"
      [] op = "assign_ticket_flow" -> "ticket.assign"
      [] op = "close_ticket"       -> "ticket.close"

Mutations == {"open_ticket", "assign_ticket_flow", "close_ticket"}

(* The tickets this step creates, and those whose record it changes. *)
Created == (DOMAIN store'.tickets) \ (DOMAIN store.tickets)

Changed ==
    {t \in (DOMAIN store.tickets) \cap (DOMAIN store'.tickets) :
        store'.tickets[t] # store.tickets[t]}

EventsOf(st, t, action) ==
    {i \in 1..Len(st.audits) :
        st.audits[i].action = action /\ st.audits[i].meta.ticket_id = t}

-----------------------------------------------------------------------------
(* C1: every successful open_ticket, assign_ticket_flow or close_ticket call
   leaves the audit log as it was with exactly one event appended; the
   event's action is that of the call and its meta.ticket_id is the id of
   the ticket the call created (open) or was made on (assign, close). *)
C1_OneAuditPerMutation ==
    [][\A op \in Mutations :
          Succeeded(op) =>
             /\ Len(store'.audits) = Len(store.audits) + 1
             /\ SubSeq(store'.audits, 1, Len(store.audits)) = store.audits
             /\ LET event == store'.audits[Len(store'.audits)]
                IN  /\ event.action = AuditAction(op)
                    /\ IF op = "open_ticket"
                       THEN Created = {event.meta.ticket_id}
                       ELSE /\ event.meta.ticket_id = last'.args[1]
                            /\ Changed \subseteq {event.meta.ticket_id}
                            /\ Created = {}]_vars

(* The log holds an open, an assign and a close event, the last call having
   succeeded. *)
C1_Witness ==
    /\ last.raised = Ok
    /\ last.op \in Mutations
    /\ \A a \in {"ticket.open", "ticket.assign", "ticket.close"} :
          \E i \in 1..Len(store.audits) : store.audits[i].action = a

(* C2: a ticket is created with status "open", and a ticket whose status is
   "closed" has status "closed" after every step: no call reopens it (and
   no call removes a ticket). *)
C2_ClosedStaysClosed ==
    [][/\ \A t \in Created : store'.tickets[t].status = "open"
       /\ \A t \in DOMAIN store.tickets :
             /\ t \in DOMAIN store'.tickets
             /\ store'.tickets[t].status \in {"open", "closed"}
             /\ store.tickets[t].status = "closed"
                   => store'.tickets[t].status = "closed"]_vars

(* A closed ticket on which a later call (assign or close) has succeeded. *)
C2_Witness ==
    /\ last.raised = Ok
    /\ last.op \in {"assign_ticket_flow", "close_ticket"}
    /\ last.args[1] \in DOMAIN store.tickets
    /\ store.tickets[last.args[1]].status = "closed"
    /\ \E i \in EventsOf(store, last.args[1], "ticket.close") :
          i < Len(store.audits)

(* C3: once a ticket's status is "closed" no step changes the ticket; in
   particular assign_ticket_flow leaves its assigned_to as it was. *)
C3_ClosedTicketFrozen ==
    [][\A t \in DOMAIN store.tickets :
          store.tickets[t].status = "closed"
             => /\ t \in DOMAIN store'.tickets
                /\ store'.tickets[t] = store.tickets[t]]_vars


-----------------------------------------------------------------------------
(* Reading an ID: its numeric part is what follows its last "-". *)

LastDash(id) ==
    CHOOSE i \in 1..Len(id) :
        /\ SubSeq(id, i, i) = "-"
        /\ \A j \in (i + 1)..Len(id) : SubSeq(id, j, j) # "-"

DigitValue(c) == (CHOOSE d \in 1..Len(DigitChar) : DigitChar[d] = c) - 1

RECURSIVE ParseDecimal(_, _)
ParseDecimal(s, acc) ==
    IF Len(s) = 0 THEN acc
    ELSE ParseDecimal(Tail(s), acc * 10 + DigitValue(Head(s)))

NumericPart(id) == ParseDecimal(SubSeq(id, LastDash(id) + 1, Len(id)), 0)

(* C4: no two IDs next_id has returned are equal, and the numeric parts of
   the IDs returned for one prefix increase strictly in call order; so the
   tickets and the audit events of the store have IDs of their own: every
   ticket is stored under its id, no ticket has been overwritten by a later
   one (there are as many tickets as ticket.open events), and no two audit
   events share an id. *)
C4_IdsUniqueIncreasing ==
    /\ \A i, j \in 1..Len(store.issued) :
          i < j => /\ store.issued[i].id # store.issued[j].id
                   /\ store.issued[i].prefix = store.issued[j].prefix
                         => NumericPart(store.issued[i].id)
                               < NumericPart(store.issued[j].id)
    /\ \A t \in DOMAIN store.tickets : store.tickets[t].id = t
    /\ Cardinality(DOMAIN store.tickets)
          = Cardinality({i \in 1..Len(store.audits) :
                            store.audits[i].action = "ticket.open"})
    /\ \A i, j \in 1..Len(store.audits) :
          i < j => store.audits[i].id # store.audits[j].id
    /\ \A t \in DOMAIN store.tickets :
          \A i \in 1..Len(store.audits) : store.audits[i].id # t

(* IDs of four and of five digits have been returned, for one prefix by a
   direct call and by a flow, and a ticket has been stored. *)
C4_Witness ==
    /\ \E i, j \in 1..Len(store.issued) :
          /\ i < j
          /\ store.issued[i].prefix = store.issued[j].prefix
          /\ Len(store.issued[i].id) < Len(store.issued[j].id)
    /\ last.op = "next_id"
    /\ DOMAIN store.tickets # {}


-----------------------------------------------------------------------------
(* Reading a step of the rate limiter: every check_rate_limit call changes
   the window of its user, so a step that changes the store and leaves
   last naming check_rate_limit for u is a call for u, made at now. *)

RateCalled(u) ==
    /\ store' # store
    /\ last'.op = "check_rate_limit"
    /\ last'.args = <<u, now>>

(* now lies less than 60 seconds after the start of window w. *)
InsideWindow(w) == now < (w.window_start + WINDOW_SECONDS) * 1000

(* C6: the call that finds no window starts one, with count 1, and
   succeeds.  A call made less than 60 seconds after the window start is
   counted, and succeeds if it is one of the first 30 of the window
   (the starting call is the first) and fails with the rate-limit error if
   not, the window start staying as it is.  A call made 60 seconds or more
   after the window start succeeds and sets the window start to its own time
   (in whole seconds) and the count to 1. *)
C6_ThirtyPerWindow ==
    [][\A u \in RequesterIds :
          RateCalled(u) =>
             LET after == store'.rate_limits[u]
             IN  IF u \notin DOMAIN store.rate_limits
                 THEN /\ last'.raised = Ok
                      /\ after = [window_start |-> now \div 1000, count |-> 1]
                 ELSE
                 LET w == store.rate_limits[u]
                 IN  IF InsideWindow(w)
                     THEN /\ after = [window_start |-> w.window_start,
                                      count        |-> w.count + 1]
                          /\ after.count <= RATE_LIMIT_PER_MINUTE
                                => last'.raised = Ok
                          /\ after.count > RATE_LIMIT_PER_MINUTE
                                => last'.raised = "rate limit exceeded"
                     ELSE /\ last'.raised = Ok
                          /\ after = [window_start |-> now \div 1000,
                                      count        |-> 1]]_vars

(* A second window in which the 31st request has just failed, made in the
   last millisecond of that window. *)
C6_Witness ==
    /\ last.op = "check_rate_limit"
    /\ last.raised = "rate limit exceeded"
    /\ "u1" \in DOMAIN store.rate_limits
    /\ store.rate_limits["u1"] =
          [window_start |-> 60, count |-> RATE_LIMIT_PER_MINUTE + 1]
    /\ now = 119999

(* C7: a window's count is at least 1, and it is above the limit only when
   the user's most recent check_rate_limit call raised the rate-limit error. *)
C7_CountAboveLimitRaised ==
    \A u \in DOMAIN store.rate_limits :
       /\ store.rate_limits[u].count >= 1
       /\ store.rate_limits[u].count > RATE_LIMIT_PER_MINUTE
             => /\ last.op = "check_rate_limit"
                /\ last.args[1] = u
                /\ last.raised = "rate limit exceeded"

(* The count stands above the limit, and the clock has moved on since the
   call that left it there. *)
C7_Witness ==
    /\ "u1" \in DOMAIN store.rate_limits
    /\ store.rate_limits["u1"].count > RATE_LIMIT_PER_MINUTE
    /\ last.op = "check_rate_limit"
    /\ last.args[2] < now


-----------------------------------------------------------------------------
(* Reading the threads' calls. *)

ThreadCalls == {<<t, i>> : t \in Threads, i \in 1..MaxThreadCalls}

Returned == {c \in ThreadCalls : c[2] <= Len(done[c[1]])}

(* C5: no two next_id calls made from threads return the same ID. *)
C5_NoRepeatedIdThreads ==
    \A c, d \in Returned : c # d => done[c[1]][c[2]] # done[d[1]][d[2]]

(* C8: while every call so far was made at instant 0, so inside the one
   window that starts there: at most RATE_LIMIT_PER_MINUTE calls have
   returned successfully, and once every thread has returned the window's
   count is the number of calls made. *)
C8_WindowAtomicThreads ==
    now = 0 =>
       /\ last.seq + Cardinality({c \in Returned : done[c[1]][c[2]].raised = Ok})
             <= RATE_LIMIT_PER_MINUTE
       /\ (pc = Idle /\ Returned # {})
             => heap[store.rate_limits[RateUser]].count
                   = last.seq + Cardinality(Returned)


-----------------------------------------------------------------------------
(* Reading a step of open_ticket: its requester, and whether the rate
   limiter rejects the call (the requester's window has not run out and
   holds RATE_LIMIT_PER_MINUTE requests or more). *)

OpenCalledBy(r) == Called("open_ticket") /\ last'.args[1] = r

OverLimit(r) ==
    /\ r \in DOMAIN store.rate_limits
    /\ InsideWindow(store.rate_limits[r])
    /\ store.rate_limits[r].count >= RATE_LIMIT_PER_MINUTE

NothingOpened ==
    /\ store'.tickets = store.tickets
    /\ store'.audits = store.audits
    /\ last'.raised # Ok

OpenCount(r) == Cardinality(get_open_tickets_for_user(store, r))

(* C9 as claimed: open_ticket for a user whose active flag is false creates
   no ticket and is denied with reason "inactive user", whatever the role
   and the number of open tickets. *)
C9_InactiveDeniedByPolicy ==
    [][\A r \in UserIds :
          (OpenCalledBy(r) /\ ~store.users[r].active)
             => NothingOpened /\ last'.raised = "inactive user"]_vars

(* C9 amended: open_ticket for a user whose active flag is false creates no
   ticket, whatever the role and the number of open tickets; the call fails
   with the rate-limit error when the rate limiter rejects it, and is denied
   with reason "inactive user" when not. *)
C9_InactiveNeverOpens ==
    [][\A r \in UserIds :
          (OpenCalledBy(r) /\ ~store.users[r].active)
             => /\ NothingOpened
                /\ last'.raised = IF OverLimit(r) THEN "rate limit exceeded"
                                                  ELSE "inactive user"]_vars

(* An inactive admin with MAX_OPEN_TICKETS - 1 tickets still open (one was
   closed) has just been denied. *)
C9_Witness ==
    /\ last.op = "open_ticket"
    /\ last.args[1] = "u1"
    /\ last.raised = "inactive user"
    /\ store.users["u1"] = User("u1", "admin", FALSE)
    /\ OpenCount("u1") = MAX_OPEN_TICKETS - 1
    /\ Cardinality(DOMAIN store.tickets) = MAX_OPEN_TICKETS

(* C10 as claimed: for a guest user, whatever the active flag and the
   open-ticket count, can_open_ticket returns
   (False, "guest role cannot open tickets"), and open_ticket creates no
   ticket. *)
C10_GuestReasonAlways ==
    [][/\ (Called("can_open_ticket") /\ last'.args[1].role = "guest")
             => last'.value = [allowed |-> FALSE,
                               reason  |-> "guest role cannot open tickets"]
       /\ \A r \in UserIds :
             (OpenCalledBy(r) /\ store.users[r].role = "guest")
                => NothingOpened]_vars

(* C10 amended: for a guest user, whatever the open-ticket count,
   can_open_ticket returns False, with reason
   "guest role cannot open tickets" when the user is active and
   "inactive user" when not; open_ticket creates no ticket for a guest,
   active or not. *)
C10_GuestAlwaysDenied ==
    [][/\ (Called("can_open_ticket") /\ last'.args[1].role = "guest")
             => last'.value =
                   [allowed |-> FALSE,
                    reason  |-> IF last'.args[1].active
                                THEN "guest role cannot open tickets"
                                ELSE "inactive user"]
       /\ \A r \in UserIds :
             (OpenCalledBy(r) /\ store.users[r].role = "guest")
                => /\ NothingOpened
                   /\ ~OverLimit(r)
                         => last'.raised =
                               IF store.users[r].active
                               THEN "guest role cannot open tickets"
                               ELSE "inactive user"]_vars

(* An active guest who still has open tickets has just been denied by
   open_ticket for being a guest. *)
C10_Witness ==
    /\ last.op = "open_ticket"
    /\ last.args[1] = "u1"
    /\ last.raised = "guest role cannot open tickets"
    /\ store.users["u1"] = User("u1", "guest", TRUE)
    /\ OpenCount("u1") > 0


-----------------------------------------------------------------------------
(* Reading the quota: the ids of the tickets of requester r whose status is
   "open", assigned or not. *)

OpenIds(st, r) ==
    {t \in DOMAIN st.tickets :
        st.tickets[t].requester_id = r /\ st.tickets[t].status = "open"}

(* C11: for an existing, active, non-guest requester whom the rate limiter
   lets through, open_ticket succeeds (creating one open ticket of that
   requester) exactly when the requester has fewer than MAX_OPEN_TICKETS
   tickets of status "open" before the call, and is denied with reason
   "too many open tickets" when not; closed tickets do not count, assigned
   open tickets do. *)
C11_OpensIffUnderQuota ==
    [][\A r \in UserIds :
          (/\ OpenCalledBy(r)
           /\ store.users[r].active
           /\ store.users[r].role # "guest"
           /\ ~OverLimit(r))
             => LET n == Cardinality(OpenIds(store, r))
                IN  /\ n < MAX_OPEN_TICKETS
                          => /\ last'.raised = Ok
                             /\ Cardinality(Created) = 1
                             /\ OpenIds(store', r) = OpenIds(store, r) \cup Created
                    /\ n >= MAX_OPEN_TICKETS
                          => /\ last'.raised = "too many open tickets"
                             /\ Created = {}]_vars

(* u1 has just been denied with MAX_OPEN_TICKETS open tickets, one of its
   earlier tickets being closed. *)
C11_Witness ==
    /\ last.op = "open_ticket"
    /\ last.args[1] = "u1"
    /\ last.raised = "too many open tickets"
    /\ Cardinality(OpenIds(store, "u1")) = MAX_OPEN_TICKETS
    /\ \E t \in DOMAIN store.tickets :
          /\ store.tickets[t].requester_id = "u1"
          /\ store.tickets[t].status = "closed"


(* C12: an open_ticket, assign_ticket_flow or close_ticket call that fails
   leaves the ticket map (so every ticket's fields), the audit log and the
   ID counter as they were before the call. *)
C12_FailureLeavesStore ==
    [][\A op \in Mutations :
          (Called(op) /\ last'.raised # Ok)
             => /\ store'.tickets = store.tickets
                /\ store'.audits = store.audits
                /\ store'.id_counter = store.id_counter
                /\ store'.issued = store.issued]_vars

(* assign_ticket_flow has just failed on an empty candidate list, for a
   ticket that exists and is assigned. *)
C12_Witness ==
    /\ last.op = "assign_ticket_flow"
    /\ last.raised # Ok
    /\ last.args[2] = << >>
    /\ last.args[1] \in DOMAIN store.tickets
    /\ store.tickets[last.args[1]].assigned_to # None

(* Policy would deny requester r, a user, as the store stands. *)
PolicyWouldDeny(r) ==
    \/ ~store.users[r].active
    \/ store.users[r].role = "guest"
    \/ Cardinality(OpenIds(store, r)) >= MAX_OPEN_TICKETS

PolicyReasons ==
    {"inactive user", "guest role cannot open tickets", "too many open tickets"}

(* C13: every open_ticket call is counted in the window of its requester id,
   user or not (a window is created, restarted or its count incremented),
   whatever the outcome.  The first failing step decides the outcome: the
   rate-limit error when the call is over the limit, else
   "requester not found" when the id is no user, else the policy's reason
   when policy denies, else success. *)
C13_RateLimiterFirst ==
    [][\A r \in RequesterIds :
          OpenCalledBy(r) =>
             /\ r \in DOMAIN store'.rate_limits
             /\ store'.rate_limits[r] =
                   IF r \notin DOMAIN store.rate_limits
                   THEN [window_start |-> now \div 1000, count |-> 1]
                   ELSE IF ~InsideWindow(store.rate_limits[r])
                   THEN [window_start |-> now \div 1000, count |-> 1]
                   ELSE [window_start |-> store.rate_limits[r].window_start,
                         count        |-> store.rate_limits[r].count + 1]
             /\ \A u \in (DOMAIN store.rate_limits) \ {r} :
                   store'.rate_limits[u] = store.rate_limits[u]
             /\ IF OverLimit(r)
                THEN last'.raised = "rate limit exceeded"
                ELSE IF r \notin DOMAIN store.users
                THEN last'.raised = "requester not found"
                ELSE IF PolicyWouldDeny(r)
                THEN last'.raised \in PolicyReasons
                ELSE last'.raised = Ok]_vars

(* "ghost", no user, has just been refused by the rate limiter, the call
   counted in its window. *)
C13_Witness ==
    /\ last.op = "open_ticket"
    /\ last.args[1] = "ghost"
    /\ last.raised = "rate limit exceeded"
    /\ "ghost" \notin DOMAIN store.users
    /\ store.rate_limits["ghost"].count = RATE_LIMIT_PER_MINUTE + 1


(* C14: for an existing ticket and a non-empty candidate list,
   assign_ticket_flow succeeds and sets the ticket's assigned_to to the
   agent of a candidate whose load is the least of the loads supplied, the
   first such candidate in the supplied order; the notification returned
   carries that agent id, the ticket id and the ticket's severity. *)
C14_AssignsFirstLeastLoaded ==
    [][(/\ Called("assign_ticket_flow")
        /\ last'.args[1] \in DOMAIN store.tickets
        /\ Len(last'.args[2]) > 0)
          => LET t      == last'.args[1]
                 agents == last'.args[2]
                 a      == store'.tickets[t].assigned_to
             IN  /\ last'.raised = Ok
                 /\ \E i \in 1..Len(agents) :
                       /\ agents[i][1] = a
                       /\ \A k \in 1..Len(agents) : agents[i][2] <= agents[k][2]
                       /\ \A k \in 1..(i - 1) : agents[k][2] > agents[i][2]
                 /\ last'.value = [kind      |-> "assignment",
                                   ticket_id |-> t,
                                   agent_id  |-> a,
                                   severity  |-> store.tickets[t].severity]]_vars

(* [("a1", 3), ("a2", 1), ("a3", 5)] has assigned a2. *)
C14_Witness ==
    /\ last.op = "assign_ticket_flow"
    /\ last.args[2] = ExampleAgents
    /\ last.raised = Ok
    /\ store.tickets[last.args[1]].assigned_to = "a2"
    /\ last.value.agent_id = "a2"


(* C15: close_ticket on an existing ticket never fails; it leaves the ticket
   with status "closed" and every other field as it was (so a ticket closed
   before is left as the first close left it), returns the ticket, and
   appends one more "ticket.close" event for it, closed before or not. *)
C15_CloseIdempotentButAudited ==
    [][(Called("close_ticket") /\ last'.args[1] \in DOMAIN store.tickets)
          => LET t == last'.args[1]
             IN  /\ last'.raised = Ok
                 /\ store'.tickets[t] = [store.tickets[t] EXCEPT !.status = "closed"]
                 /\ store.tickets[t].status = "closed"
                       => store'.tickets = store.tickets
                 /\ last'.value = store'.tickets[t]
                 /\ Cardinality(EventsOf(store', t, "ticket.close"))
                       = Cardinality(EventsOf(store, t, "ticket.close")) + 1
                 /\ Len(store'.audits) = Len(store.audits) + 1]_vars

(* A ticket closed three times in a row: the last three events of the log
   are its "ticket.close" events. *)
C15_Witness ==
    /\ last.op = "close_ticket"
    /\ last.raised = Ok
    /\ Len(store.audits) >= 3
    /\ \A i \in (Len(store.audits) - 2)..Len(store.audits) :
          /\ store.audits[i].action = "ticket.close"
          /\ store.audits[i].meta.ticket_id = last.args[1]
    /\ store.tickets[last.args[1]].status = "closed"


(* C16: every audit event names a ticket of the store; every ticket has
   exactly one "ticket.open" event, which precedes its "ticket.assign" and
   "ticket.close" events; a ticket is closed iff it has a "ticket.close"
   event; a ticket's assigned_to is set iff it has a "ticket.assign" event,
   and is then the actor_id of the latest one. *)
C16_TicketsMatchAuditTrail ==
    /\ \A i \in 1..Len(store.audits) :
          store.audits[i].meta.ticket_id \in DOMAIN store.tickets
    /\ \A t \in DOMAIN store.tickets :
          LET opens   == EventsOf(store, t, "ticket.open")
              assigns == EventsOf(store, t, "ticket.assign")
              closes  == EventsOf(store, t, "ticket.close")
          IN  /\ Cardinality(opens) = 1
              /\ \A i \in opens : \A j \in assigns \cup closes : i < j
              /\ store.tickets[t].status = "closed" <=> closes # {}
              /\ store.tickets[t].status \in {"open", "closed"}
              /\ store.tickets[t].assigned_to # None <=> assigns # {}
              /\ \A j \in assigns :
                    (\A k \in assigns : k <= j)
                       => store.tickets[t].assigned_to = store.audits[j].actor_id

(* A closed ticket that was assigned twice, to different agents; the later
   assignment came after the close. *)
C16_Witness ==
    \E t \in DOMAIN store.tickets :
       /\ store.tickets[t].status = "closed"
       /\ \E i, j \in EventsOf(store, t, "ticket.assign") :
             /\ i < j
             /\ store.audits[i].actor_id # store.audits[j].actor_id
             /\ store.tickets[t].assigned_to = store.audits[j].actor_id
             /\ \E c \in EventsOf(store, t, "ticket.close") : i < c /\ c < j


(* C17: a check_rate_limit call that raises has incremented the count and
   left the window start as it was; a call made 60 seconds or more after
   the window start succeeds and resets the count to 1, however far above
   the limit the count stands. *)
C17_SelfHeals ==
    [][\A u \in RequesterIds :
          (RateCalled(u) /\ u \in DOMAIN store.rate_limits)
             => LET w     == store.rate_limits[u]
                    after == store'.rate_limits[u]
                IN  /\ last'.raised # Ok
                          => /\ after.count = w.count + 1
                             /\ after.window_start = w.window_start
                             /\ InsideWindow(w)
                    /\ ~InsideWindow(w)
                          => /\ last'.raised = Ok
                             /\ after.count = 1
                             /\ after.window_start = now \div 1000]_vars

(* The window that started at second 0 was violated; the call made at
   60000 ms has succeeded and started a window with count 1. *)
C17_Witness ==
    /\ last.op = "check_rate_limit"
    /\ last.raised = Ok
    /\ last.args = <<"u1", 60000>>
    /\ store.rate_limits["u1"] = [window_start |-> 60, count |-> 1]
    /\ now = 60000


(* C18: no requester id has more than MAX_OPEN_TICKETS tickets of status
   "open". *)
C18_OpenTicketsBounded ==
    \A r \in RequesterIds :
       Cardinality(OpenIds(store, r)) <= MAX_OPEN_TICKETS

(* u1 is back at MAX_OPEN_TICKETS open tickets: it closed one and has just
   opened another; its role or active flag may have changed since. *)
C18_Witness ==
    /\ last.op = "open_ticket"
    /\ last.args[1] = "u1"
    /\ last.raised = Ok
    /\ Cardinality(OpenIds(store, "u1")) = MAX_OPEN_TICKETS
    /\ \E t \in DOMAIN store.tickets :
          /\ store.tickets[t].requester_id = "u1"
          /\ store.tickets[t].status = "closed"
    /\ store.users["u1"] # SeedUsers2["u1"]


(* C19: a check_rate_limit call that finds a window and leaves it with a
   fresh count of 1 (the reset branch) is made at least 60 seconds after
   the call that started that window. *)
C19_ResetOnlyAfterSixtySeconds ==
    [][\A u \in RequesterIds :
          (/\ RateCalled(u)
           /\ u \in DOMAIN store.rate_limits
           /\ store'.rate_limits[u].count = 1)
             => now - store.started[u] >= WINDOW_SECONDS * 1000]_vars


(* The tickets other than t are as they were. *)
OtherTicketsKept(t) ==
    \A o \in (DOMAIN store.tickets) \ {t} : store'.tickets[o] = store.tickets[o]

(* C20: no step removes a ticket or changes the users map.
   check_rate_limit for u leaves every other user's window, the tickets and
   the audit log as they were.  assign_ticket_flow changes of the tickets
   only the target's assigned_to, close_ticket only the target's status,
   open_ticket no existing ticket; the three flows leave the windows of
   users other than the requester alone. *)
C20_FrameEffects ==
    [][/\ store'.users = store.users
       /\ DOMAIN store.tickets \subseteq DOMAIN store'.tickets
       /\ \A u \in RequesterIds :
             RateCalled(u) =>
                /\ DOMAIN store'.rate_limits = (DOMAIN store.rate_limits) \cup {u}
                /\ \A v \in (DOMAIN store.rate_limits) \ {u} :
                      store'.rate_limits[v] = store.rate_limits[v]
                /\ store'.tickets = store.tickets
                /\ store'.audits = store.audits
                /\ store'.id_counter = store.id_counter
       /\ Called("assign_ticket_flow") =>
             /\ DOMAIN store'.tickets = DOMAIN store.tickets
             /\ OtherTicketsKept(last'.args[1])
             /\ last'.args[1] \in DOMAIN store.tickets =>
                   store'.tickets[last'.args[1]] =
                      [store.tickets[last'.args[1]] EXCEPT !.assigned_to =
                          store'.tickets[last'.args[1]].assigned_to]
             /\ store'.rate_limits = store.rate_limits
       /\ Called("close_ticket") =>
             /\ DOMAIN store'.tickets = DOMAIN store.tickets
             /\ OtherTicketsKept(last'.args[1])
             /\ last'.args[1] \in DOMAIN store.tickets =>
                   store'.tickets[last'.args[1]] =
                      [store.tickets[last'.args[1]] EXCEPT !.status =
                          store'.tickets[last'.args[1]].status]
             /\ store'.rate_limits = store.rate_limits
       /\ Called("open_ticket") =>
             /\ \A t \in DOMAIN store.tickets :
                   store'.tickets[t] = store.tickets[t]
             /\ \A v \in (DOMAIN store.rate_limits) \ {last'.args[1]} :
                   /\ v \in DOMAIN store'.rate_limits
                   /\ store'.rate_limits[v] = store.rate_limits[v]]_vars

(* An assigned ticket has just been closed, its assignee kept, beside a
   ticket that is still open and unassigned; a direct check_rate_limit call
   has given "ghost" a window beside those of u1 and u2. *)
C20_Witness ==
    /\ last.op = "close_ticket"
    /\ last.raised = Ok
    /\ store.tickets[last.args[1]].assigned_to # None
    /\ store.tickets[last.args[1]].status = "closed"
    /\ \E o \in DOMAIN store.tickets :
          /\ store.tickets[o].status = "open"
          /\ store.tickets[o].assigned_to = None
    /\ DOMAIN store.rate_limits = RequesterIds

=============================================================================
